---- MODULE Spec2Model ----
(***************************************************************************)
(* Model of the git-identity-switcher core: the profile store              *)
(* (load_identities / save_identities in model.py), the identity           *)
(* application routine (apply_identity in model.py) and the window that    *)
(* drives them (MainWindow in views.py).                                   *)
(*                                                                         *)
(* Text is modelled character by character: a string is a sequence of      *)
(* one-character strings, so that JSON encoding/decoding, shell quoting    *)
(* and home-directory expansion are computed, not assumed.                 *)
(***************************************************************************)
EXTENDS Integers, Sequences, FiniteSets, TLC

(***************************************************************************)
(* Python values that can travel through json.dump / json.load.            *)
(* Every value has the same four fields; `t` says which one is meaningful. *)
(*   str : s is the character sequence                                     *)
(*   arr : a is the sequence of element values                             *)
(*   obj : o is the sequence of [k |-> key chars, v |-> value] entries,    *)
(*         in insertion order, keys unique (a Python dict)                 *)
(*   none: Python None                                                     *)
(***************************************************************************)
PyStr(c) == [t |-> "str", s |-> c, a |-> <<>>, o |-> <<>>]
PyArr(xs) == [t |-> "arr", s |-> <<>>, a |-> xs, o |-> <<>>]
PyObj(es) == [t |-> "obj", s |-> <<>>, a |-> <<>>, o |-> es]
PyNone == [t |-> "none", s |-> <<>>, a |-> <<>>, o |-> <<>>]

\* dict.__contains__
HasKey(d, key) == \E i \in 1..Len(d.o) : d.o[i].k = key

\* dict.__getitem__ (only used where HasKey holds)
GetItem(d, key) == d.o[CHOOSE i \in 1..Len(d.o) : d.o[i].k = key].v

\* dict.get(key, default)
DictGet(d, key, default) == IF HasKey(d, key) THEN GetItem(d, key) ELSE default

\* d[key] = val : overwrite in place, or append a new entry at the end
SetItem(d, key, val) ==
    IF HasKey(d, key)
    THEN PyObj([i \in 1..Len(d.o) |->
                  IF d.o[i].k = key THEN [k |-> key, v |-> val] ELSE d.o[i]])
    ELSE PyObj(Append(d.o, [k |-> key, v |-> val]))

\* The field names used by the code, as character sequences.
K_identities == <<"i","d","e","n","t","i","t","i","e","s">>
K_name == <<"n","a","m","e">>
K_git_name == <<"g","i","t","_","n","a","m","e">>
K_git_email == <<"g","i","t","_","e","m","a","i","l">>
K_ssh_key == <<"s","s","h","_","k","e","y">>

(***************************************************************************)
(* json.dump(data, f, indent=2)                                            *)
(***************************************************************************)
QUOTE == "\""
BACKSLASH == "\\"
NL == "\n"

RECURSIVE Spaces(_)
Spaces(n) == IF n = 0 THEN <<>> ELSE <<" ">> \o Spaces(n - 1)

\* json string escaping of the characters the model uses
RECURSIVE JsonEscape(_)
\* (variant: characters written as they are, nothing escaped)
JsonEscape_Raw(c) == c

JsonEscape(c) ==
    IF c = <<>> THEN <<>>
    ELSE (IF Head(c) = QUOTE THEN <<BACKSLASH, QUOTE>>
          ELSE IF Head(c) = BACKSLASH THEN <<BACKSLASH, BACKSLASH>>
          ELSE IF Head(c) = NL THEN <<BACKSLASH, "n">>
          ELSE <<Head(c)>>) \o JsonEscape(Tail(c))

JsonString(c) == <<QUOTE>> \o JsonEscape(c) \o <<QUOTE>>

RECURSIVE JsonDumps(_, _)
RECURSIVE JsonDumpItems(_, _, _)
RECURSIVE JsonDumpEntries(_, _, _)

\* elements i..Len(xs) of a non-empty array, each on its own line
JsonDumpItems(xs, i, level) ==
    <<NL>> \o Spaces(2 * level) \o JsonDumps(xs[i], level)
    \o (IF i = Len(xs) THEN <<>> ELSE <<",">> \o JsonDumpItems(xs, i + 1, level))

\* entries i..Len(es) of a non-empty object, each on its own line
JsonDumpEntries(es, i, level) ==
    <<NL>> \o Spaces(2 * level) \o JsonString(es[i].k) \o <<":", " ">>
    \o JsonDumps(es[i].v, level)
    \o (IF i = Len(es) THEN <<>> ELSE <<",">> \o JsonDumpEntries(es, i + 1, level))

JsonDumps(val, level) ==
    CASE val.t = "str" -> JsonString(val.s)
      [] val.t = "none" -> <<"n","u","l","l">>
      [] val.t = "arr" ->
            IF val.a = <<>> THEN <<"[", "]">>
            ELSE <<"[">> \o JsonDumpItems(val.a, 1, level + 1)
                 \o <<NL>> \o Spaces(2 * level) \o <<"]">>
      [] val.t = "obj" ->
            IF val.o = <<>> THEN <<"{", "}">>
            ELSE <<"{">> \o JsonDumpEntries(val.o, 1, level + 1)
                 \o <<NL>> \o Spaces(2 * level) \o <<"}">>

JsonDump(val) == JsonDumps(val, 0)

(***************************************************************************)
(* json.load(f): a recursive-descent reading of the text.  A parse result  *)
(* is [ok, val, pos]: pos is the index of the first character not read.    *)
(* ok = FALSE stands for json.JSONDecodeError.  The model reads strings,   *)
(* arrays, objects and null, which are the values the store writes.        *)
(***************************************************************************)
ParseFail == [ok |-> FALSE, val |-> PyNone, pos |-> 0]

IsWs(ch) == ch \in {" ", NL, "\t", "\r"}

RECURSIVE SkipWs(_, _)
SkipWs(txt, i) ==
    IF i <= Len(txt) /\ IsWs(txt[i]) THEN SkipWs(txt, i + 1) ELSE i

\* the body of a string, from position i (just after the opening quote)
RECURSIVE ScanString(_, _, _)
ScanString(txt, i, acc) ==
    IF i > Len(txt) THEN ParseFail
    ELSE IF txt[i] = QUOTE THEN [ok |-> TRUE, val |-> PyStr(acc), pos |-> i + 1]
    ELSE IF txt[i] = NL THEN ParseFail
    ELSE IF txt[i] = BACKSLASH THEN
        IF i + 1 > Len(txt) THEN ParseFail
        ELSE IF txt[i + 1] \in {QUOTE, BACKSLASH, "/"}
             THEN ScanString(txt, i + 2, Append(acc, txt[i + 1]))
        ELSE IF txt[i + 1] = "n" THEN ScanString(txt, i + 2, Append(acc, NL))
        ELSE ParseFail
    ELSE ScanString(txt, i + 1, Append(acc, txt[i]))

RECURSIVE ParseValue(_, _)
RECURSIVE ParseItems(_, _, _)
RECURSIVE ParseEntries(_, _, _)

\* array elements: position i is at the start of an element
ParseItems(txt, i, acc) ==
    LET r == ParseValue(txt, i)
        j == SkipWs(txt, r.pos)
    IN  IF ~r.ok \/ j > Len(txt) THEN ParseFail
        ELSE IF txt[j] = "]"
             THEN [ok |-> TRUE, val |-> PyArr(Append(acc, r.val)), pos |-> j + 1]
        ELSE IF txt[j] = ","
             THEN ParseItems(txt, SkipWs(txt, j + 1), Append(acc, r.val))
        ELSE ParseFail

\* object entries: position i is at the opening quote of a key
ParseEntries(txt, i, acc) ==
    IF i > Len(txt) \/ txt[i] # QUOTE THEN ParseFail
    ELSE
    LET key == ScanString(txt, i + 1, <<>>)
        c == SkipWs(txt, key.pos)
    IN  IF ~key.ok \/ c > Len(txt) \/ txt[c] # ":" THEN ParseFail
        ELSE
        LET r == ParseValue(txt, SkipWs(txt, c + 1))
            j == SkipWs(txt, r.pos)
            d == SetItem(acc, key.val.s, r.val)
        IN  IF ~r.ok \/ j > Len(txt) THEN ParseFail
            ELSE IF txt[j] = "}" THEN [ok |-> TRUE, val |-> d, pos |-> j + 1]
            ELSE IF txt[j] = ","
                 THEN ParseEntries(txt, SkipWs(txt, j + 1), d)
            ELSE ParseFail

ParseValue(txt, i) ==
    IF i > Len(txt) THEN ParseFail
    ELSE IF txt[i] = QUOTE THEN ScanString(txt, i + 1, <<>>)
    ELSE IF txt[i] = "[" THEN
        LET j == SkipWs(txt, i + 1)
        IN  IF j <= Len(txt) /\ txt[j] = "]"
            THEN [ok |-> TRUE, val |-> PyArr(<<>>), pos |-> j + 1]
            ELSE ParseItems(txt, j, <<>>)
    ELSE IF txt[i] = "{" THEN
        LET j == SkipWs(txt, i + 1)
        IN  IF j <= Len(txt) /\ txt[j] = "}"
            THEN [ok |-> TRUE, val |-> PyObj(<<>>), pos |-> j + 1]
            ELSE ParseEntries(txt, j, PyObj(<<>>))
    ELSE IF i + 3 <= Len(txt) /\ SubSeq(txt, i, i + 3) = <<"n","u","l","l">>
         THEN [ok |-> TRUE, val |-> PyNone, pos |-> i + 4]
    ELSE ParseFail

\* the whole document: one value, then only whitespace
JsonLoad(txt) ==
    LET r == ParseValue(txt, SkipWs(txt, 1))
    IN  IF r.ok /\ SkipWs(txt, r.pos) = Len(txt) + 1
        THEN [ok |-> TRUE, val |-> r.val]
        ELSE [ok |-> FALSE, val |-> PyNone]

(***************************************************************************)
(* The profile store (model.py).  The backing file CONFIG_FILE is          *)
(* [exists, text]; an operation's outcome is [kind, val, exc, arg]:        *)
(* kind = "return" with the returned value, or kind = "raise" with the     *)
(* exception's class name and its argument.                                *)
(***************************************************************************)
Return(val) == [kind |-> "return", val |-> val, exc |-> "", arg |-> <<>>]
Raise(exc, arg) == [kind |-> "raise", val |-> PyNone, exc |-> exc, arg |-> arg]

NoFile == [exists |-> FALSE, text |-> <<>>]
FileWith(text) == [exists |-> TRUE, text |-> text]

\* {"identities": identities}
StoreDocument(identities) == PyObj(<<[k |-> K_identities, v |-> identities]>>)

\* (variant: a missing file is reported empty but not written)
load_missing_NoWrite(f) == [file |-> f, outcome |-> Return(PyArr(<<>>))]

\* load_identities() when CONFIG_FILE does not exist: write {"identities": []}
load_missing(f) ==
    [file |-> FileWith(JsonDump(StoreDocument(PyArr(<<>>)))),
     outcome |-> Return(PyArr(<<>>))]

\* load_identities(): the outcome and the file it leaves behind
load_identities(f) ==
    IF ~f.exists
    THEN load_missing(f)
    ELSE LET r == JsonLoad(f.text)
         IN  IF ~r.ok
             THEN [file |-> f, outcome |-> Raise("JSONDecodeError", <<>>)]
             ELSE IF r.val.t # "obj"
             THEN [file |-> f, outcome |-> Raise("AttributeError", <<>>)]
             ELSE [file |-> f,
                   outcome |-> Return(DictGet(r.val, K_identities, PyArr(<<>>)))]

\* (variant: the list is written as it was before its last record was added)
save_identities_BeforeAppend(identities) ==
    FileWith(JsonDump(StoreDocument(
        IF identities.t = "arr" /\ identities.a # <<>>
        THEN PyArr(SubSeq(identities.a, 1, Len(identities.a) - 1))
        ELSE identities)))

\* save_identities(identities): the file it leaves behind
save_identities(identities) == FileWith(JsonDump(StoreDocument(identities)))

(***************************************************************************)
(* The host: the file system's key files, the platform shell, the SSH      *)
(* agent and the global Git configuration.                                 *)
(***************************************************************************)
\* the user's home directory, as os.path.expanduser finds it
Home == <<"/", "h">>

\* the regular files that exist on the file system: two private keys
KeyFiles == { <<"/", "h", "/", "a">>, <<"/", "M", " ", "K">> }

\* the directories that exist on the file system: the root and the home
Directories == { <<"/">>, Home }

\* os.path.expanduser(path): "~" and "~/..." become the home directory;
\* "~user" names no known user on the modelled host and is left as it is
expanduser(path) ==
    IF path = <<>> \/ Head(path) # "~" THEN path
    ELSE IF Len(path) = 1 THEN Home
    ELSE IF path[2] = "/" THEN Home \o Tail(path)
    ELSE path

\* os.path.exists(path): true of a file and of a directory alike
path_exists(path) == path \in KeyFiles \cup Directories

\* what ssh-add needs of its argument: a regular file holding a key
is_key_file(path) == path \in KeyFiles

(***************************************************************************)
(* A command line is [prog, rest]: prog is the literal text the code       *)
(* writes before the formatted part, rest is the formatted part, character *)
(* by character, as str.format produced it.                                *)
(***************************************************************************)
Cmd(prog, rest) == [prog |-> prog, rest |-> rest]

\* "ssh-add -D"
CmdAgentClear == Cmd("ssh-add -D", <<>>)

\* 'ssh-add "{0}"'.format(ssh_key)
CmdAgentAdd(key) == Cmd("ssh-add", <<QUOTE>> \o key \o <<QUOTE>>)

\* 'git config --global user.name "{0}"'.format(git_name)
CmdGitName(name) == Cmd("git config --global user.name", <<QUOTE>> \o name \o <<QUOTE>>)

\* 'git config --global user.email "{0}"'.format(git_email)
CmdGitEmail(email) == Cmd("git config --global user.email", <<QUOTE>> \o email \o <<QUOTE>>)

\* (variant: the key path is not put inside escaped quotes)
CmdGitSsh_Unquoted(key) ==
    Cmd("git config --global core.sshCommand",
        <<QUOTE, "s", "s", "h", " ", "-", "i", " ">> \o key \o <<QUOTE>>)

\* 'git config --global core.sshCommand "ssh -i \\"{0}\\""'.format(ssh_key)
CmdGitSsh(key) ==
    Cmd("git config --global core.sshCommand",
        <<QUOTE, "s", "s", "h", " ", "-", "i", " ", BACKSLASH, QUOTE>>
        \o key \o <<BACKSLASH, QUOTE, QUOTE>>)

(***************************************************************************)
(* The platform shell splits the formatted part into words.  Inside double *)
(* quotes a backslash escapes a quote or a backslash; outside quotes blanks*)
(* separate words; an unclosed quote is a syntax error and nothing runs.   *)
(* (cmd.exe hands the line to the program, whose runtime applies the same  *)
(* two rules.)  The result is [ok, words].                                 *)
(***************************************************************************)
RECURSIVE ShellScan(_, _, _, _, _, _)
ShellScan(txt, i, inQuote, cur, hasCur, words) ==
    IF i > Len(txt)
    THEN IF inQuote THEN [ok |-> FALSE, words |-> <<>>]
         ELSE [ok |-> TRUE, words |-> IF hasCur THEN Append(words, cur) ELSE words]
    ELSE IF inQuote
    THEN IF txt[i] = QUOTE THEN ShellScan(txt, i + 1, FALSE, cur, TRUE, words)
         ELSE IF txt[i] = BACKSLASH /\ i < Len(txt) /\ txt[i + 1] \in {QUOTE, BACKSLASH}
              THEN ShellScan(txt, i + 2, TRUE, Append(cur, txt[i + 1]), TRUE, words)
         ELSE ShellScan(txt, i + 1, TRUE, Append(cur, txt[i]), TRUE, words)
    ELSE IF txt[i] = QUOTE THEN ShellScan(txt, i + 1, TRUE, cur, TRUE, words)
         ELSE IF txt[i] = BACKSLASH /\ i < Len(txt)
              THEN ShellScan(txt, i + 2, FALSE, Append(cur, txt[i + 1]), TRUE, words)
         ELSE IF txt[i] = " "
              THEN ShellScan(txt, i + 1, FALSE, <<>>, FALSE,
                             IF hasCur THEN Append(words, cur) ELSE words)
         ELSE ShellScan(txt, i + 1, FALSE, Append(cur, txt[i]), TRUE, words)

ShellWords(txt) == ShellScan(txt, 1, FALSE, <<>>, FALSE, <<>>)

\* A configuration value: unset, or set to a character sequence.
Unset == [set |-> FALSE, v |-> <<>>]
SetTo(c) == [set |-> TRUE, v |-> c]

\* the agent after loading `key`: one entry per key, marked as loaded by the tool
AgentAdd(agent, key) ==
    {e \in agent : e.key # key} \cup {[key |-> key, by |-> "tool"]}

(***************************************************************************)
(* run(cmd): subprocess.call(cmd, shell=True), exit status dropped.        *)
(* `fails` is the set of programs that cannot do their work on this call   *)
(* (agent unreachable, passphrase refused, config not writable): such a    *)
(* command exits non-zero and changes nothing.  host is [git, agent].      *)
(***************************************************************************)
run(cmd, fails, host) ==
    LET w == ShellWords(cmd.rest)
        good == w.ok /\ cmd.prog \notin fails
    IN  CASE cmd.prog = "ssh-add -D" ->
                IF good THEN [host EXCEPT !.agent = {}] ELSE host
          [] cmd.prog = "ssh-add" ->
                IF good /\ Len(w.words) = 1 /\ is_key_file(w.words[1])
                THEN [host EXCEPT !.agent = AgentAdd(host.agent, w.words[1])]
                ELSE host
          [] cmd.prog = "git config --global user.name" ->
                IF good /\ Len(w.words) = 1
                THEN [host EXCEPT !.git.name = SetTo(w.words[1])] ELSE host
          [] cmd.prog = "git config --global user.email" ->
                IF good /\ Len(w.words) = 1
                THEN [host EXCEPT !.git.email = SetTo(w.words[1])] ELSE host
          [] cmd.prog = "git config --global core.sshCommand" ->
                IF good /\ Len(w.words) = 1
                THEN [host EXCEPT !.git.ssh = SetTo(w.words[1])] ELSE host

\* (variant: the first command that exits non-zero ends the sequence)
RECURSIVE RunAll_StopAtFailure(_, _, _)
RunAll_StopAtFailure(cmds, fails, host) ==
    IF cmds = <<>> \/ Head(cmds).prog \in fails THEN host
    ELSE RunAll_StopAtFailure(Tail(cmds), fails, run(Head(cmds), fails, host))

\* the calls of run, one after the other
RECURSIVE RunAll(_, _, _)
RunAll(cmds, fails, host) ==
    IF cmds = <<>> THEN host
    ELSE RunAll(Tail(cmds), fails, run(Head(cmds), fails, host))

(***************************************************************************)
(* apply_identity(identity)                                                *)
(***************************************************************************)
\* (variant: the agent is handled on every platform)
AgentCommands_AnyPlatform(plat, ssh_key) == <<CmdAgentClear, CmdAgentAdd(ssh_key)>>

\* (variant: the key is added without clearing the agent first)
AgentCommands_NoClear(plat, ssh_key) ==
    IF plat # "win32" THEN <<CmdAgentAdd(ssh_key)>> ELSE <<>>

\* the ssh-agent handling, by platform
AgentCommands(plat, ssh_key) ==
    IF plat # "win32" THEN <<CmdAgentClear, CmdAgentAdd(ssh_key)>> ELSE <<>>

\* (variant: user.name and user.email are written only when non-empty)
GitCommands_NonEmptyOnly(ssh_key, git_name, git_email) ==
    (IF git_name # <<>> THEN <<CmdGitName(git_name)>> ELSE <<>>)
    \o (IF git_email # <<>> THEN <<CmdGitEmail(git_email)>> ELSE <<>>)
    \o <<CmdGitSsh(ssh_key)>>

\* the Git configuration commands
GitCommands(ssh_key, git_name, git_email) ==
    <<CmdGitName(git_name), CmdGitEmail(git_email), CmdGitSsh(ssh_key)>>

\* (variant: the Git configuration is written before the agent is handled)
ApplyCommands_GitFirst(plat, ssh_key, git_name, git_email) ==
    <<CmdGitName(git_name), CmdGitEmail(git_email), CmdGitSsh(ssh_key)>>
    \o (IF plat # "win32" THEN <<CmdAgentClear, CmdAgentAdd(ssh_key)>> ELSE <<>>)

\* every command apply_identity issues once the key file was found
ApplyCommands(plat, ssh_key, git_name, git_email) ==
    AgentCommands(plat, ssh_key) \o GitCommands(ssh_key, git_name, git_email)

NoDialog == [kind |-> "none", a |-> <<>>, b |-> <<>>, c |-> <<>>]
\* messagebox.showerror("SSH key not found", ...{ssh_key})
ErrorDialog(ssh_key) == [kind |-> "error", a |-> ssh_key, b |-> <<>>, c |-> <<>>]
\* messagebox.showinfo("Identity switched", ...{name, git_name, git_email})
InfoDialog(name, git_name, git_email) ==
    [kind |-> "info", a |-> name, b |-> git_name, c |-> git_email]

\* the result of a call that stopped before the key check
ApplyStopped(outcome, host) ==
    [outcome |-> outcome, dialog |-> NoDialog, issued |-> <<>>, host |-> host,
     checked |-> FALSE, found |-> FALSE, key |-> <<>>]

\* (variant: the error is shown but the routine does not return)
ApplyKeyMissing_NoReturn(plat, ssh_key, git_name, git_email, fails, host) ==
    [outcome |-> Return(PyNone), dialog |-> ErrorDialog(ssh_key),
     issued |-> ApplyCommands(plat, ssh_key, git_name, git_email),
     host |-> RunAll(ApplyCommands(plat, ssh_key, git_name, git_email), fails, host),
     checked |-> TRUE, found |-> FALSE, key |-> ssh_key]

\* the key file is missing: showerror, then return
ApplyKeyMissing(plat, ssh_key, git_name, git_email, fails, host) ==
    [outcome |-> Return(PyNone), dialog |-> ErrorDialog(ssh_key),
     issued |-> <<>>, host |-> host,
     checked |-> TRUE, found |-> FALSE, key |-> ssh_key]

\* the whole routine: [outcome, dialog, issued, host, checked, found, key]
apply_identity(identity, plat, fails, host) ==
    IF identity.t # "obj" THEN ApplyStopped(Raise("TypeError", <<>>), host)
    ELSE IF ~HasKey(identity, K_ssh_key)
    THEN ApplyStopped(Raise("KeyError", K_ssh_key), host)
    ELSE IF ~HasKey(identity, K_git_name)
    THEN ApplyStopped(Raise("KeyError", K_git_name), host)
    ELSE IF ~HasKey(identity, K_git_email)
    THEN ApplyStopped(Raise("KeyError", K_git_email), host)
    ELSE
    LET ssh_key == expanduser(GetItem(identity, K_ssh_key).s)
        git_name == GetItem(identity, K_git_name).s
        git_email == GetItem(identity, K_git_email).s
    IN  IF ~path_exists(ssh_key)
        THEN ApplyKeyMissing(plat, ssh_key, git_name, git_email, fails, host)
        ELSE
        LET cmds == ApplyCommands(plat, ssh_key, git_name, git_email)
            after == RunAll(cmds, fails, host)
        IN  IF ~HasKey(identity, K_name)
            THEN [outcome |-> Raise("KeyError", K_name), dialog |-> NoDialog,
                  issued |-> cmds, host |-> after,
                  checked |-> TRUE, found |-> TRUE, key |-> ssh_key]
            ELSE [outcome |-> Return(PyNone),
                  dialog |-> InfoDialog(GetItem(identity, K_name).s, git_name, git_email),
                  issued |-> cmds, host |-> after,
                  checked |-> TRUE, found |-> TRUE, key |-> ssh_key]

(***************************************************************************)
(* Bounds and inputs.                                                      *)
(***************************************************************************)
\* longest profile sequence handed to set_identities
MaxProfiles == 2

\* {"name": ..., "git_name": ..., "git_email": ..., "ssh_key": ...}
Profile(name, git_name, git_email, ssh_key) ==
    PyObj(<<[k |-> K_name, v |-> PyStr(name)],
            [k |-> K_git_name, v |-> PyStr(git_name)],
            [k |-> K_git_email, v |-> PyStr(git_email)],
            [k |-> K_ssh_key, v |-> PyStr(ssh_key)]>>)

\* key under the home directory, name with a blank
ProfileA == Profile(<<"A">>, <<"A", " ", "L">>, <<"a", "@", "x">>, <<"~", "/", "a">>)
\* label with a quote and a backslash, empty git_name, key path with a blank
ProfileB == Profile(<<"B", QUOTE, BACKSLASH>>, <<>>, <<"b", "@", "x">>, <<"/", "M", " ", "K">>)
\* empty git_email, key file that does not exist
ProfileC == Profile(<<"C">>, <<"C">>, <<>>, <<"/", "n", "o">>)
\* a hand-written record with a single field
ProfileD == PyObj(<<[k |-> K_name, v |-> PyStr(<<"D">>)]>>)

Profiles == {ProfileA, ProfileB, ProfileC, ProfileD}

\* the profile sequences of length 0..n
ProfileSeqs(n) == UNION {[1..m -> Profiles] : m \in 0..n}

\* what the backing file can hold when the program starts
ValidText == JsonDump(StoreDocument(PyArr(<<ProfileA, ProfileB, ProfileC>>)))
InitialFiles ==
    { NoFile,
      FileWith(ValidText),
      FileWith(JsonDump(StoreDocument(PyArr(<<>>)))),
      \* cut in the middle: invalid JSON
      FileWith(SubSeq(ValidText, 1, 9)),
      \* {"identities": "no"}
      FileWith(JsonDump(StoreDocument(PyStr(<<"n", "o">>)))),
      \* a record written by hand, with fields left out
      FileWith(JsonDump(StoreDocument(PyArr(<<ProfileD>>)))),
      \* a document without the identities key
      FileWith(JsonDump(PyObj(<<>>))),
      \* a document that is not an object
      FileWith(JsonDump(PyArr(<<>>))) }

Platforms == {"linux", "win32"}

Progs == {"ssh-add -D", "ssh-add", "git config --global user.name",
          "git config --global user.email", "git config --global core.sshCommand"}

\* which programs fail during one apply: none, or any one of them
FailureCases == {{}} \cup {{p} : p \in Progs}

\* the Git configuration and the agent before the tool ever ran
InitialHost ==
    [git |-> [name |-> SetTo(<<"o">>), email |-> SetTo(<<"o", "@">>), ssh |-> Unset],
     agent |-> {[key |-> <<"/", "u">>, by |-> "user"]}]

(***************************************************************************)
(* State.                                                                  *)
(***************************************************************************)
VARIABLES
    platform,    \* sys.platform
    file,        \* CONFIG_FILE: [exists, text]
    started,     \* the application object has been constructed
    identities,  \* self._identities
    selected,    \* MainWindow._selected_index
    host,        \* [git, agent]: global Git configuration and SSH agent
    issued,      \* the command lines the last apply_identity handed to run
    last,        \* the last operation and how it ended
    applied,     \* the last identity whose apply passed the key check
    failed,      \* whether an ssh-add / a git config ever exited non-zero
    windows      \* two processes of the tool on one file: each one's MainWindow

vars == <<platform, file, started, identities, selected, host, issued, last,
          applied, failed, windows>>

\* the processes of the two-instance analysis
Instances == {1, 2}

\* a process that has not constructed its window.  pc is where the process
\* stands in a handler: "idle", inside save_identities with the file opened
\* ("writing"), or back from its one mutation ("done"); op is that mutation,
\* buf the text json.dump has handed to the file object, rank the position
\* of its save among the completed ones
NoWindow ==
    [started |-> FALSE, identities |-> PyArr(<<>>), selected |-> -1,
     pc |-> "idle", op |-> "none", buf |-> <<>>, rank |-> 0]

NoApply == [dialog |-> NoDialog, checked |-> FALSE, found |-> FALSE, key |-> <<>>]

\* a record of an operation: its name, its argument, its outcome, whether a
\* load had to create the file, and for a select what apply_identity did and
\* what the status line shows
Op(op, arg, outcome, created, ap, status) ==
    [op |-> op, arg |-> arg, outcome |-> outcome, created |-> created,
     apply |-> ap, status |-> status]

Init ==
    /\ platform \in Platforms
    /\ file \in InitialFiles
    /\ started = FALSE
    /\ identities = PyArr(<<>>)
    /\ selected = -1
    /\ host = InitialHost
    /\ issued = <<>>
    /\ last = Op("none", PyNone, Return(PyNone), FALSE, NoApply, "")
    /\ applied = [any |-> FALSE, identity |-> PyNone, key |-> <<>>]
    /\ failed = [agent |-> FALSE, git |-> FALSE]
    /\ windows = [i \in Instances |-> NoWindow]

\* len(value) for the values load_identities can return
PyLen(val) ==
    CASE val.t = "str" -> Len(val.s)
      [] val.t = "arr" -> Len(val.a)
      [] val.t = "obj" -> Len(val.o)

\* value[index], index counted from 0, for a list or a string
PyIndex(val, index) ==
    IF val.t = "str" THEN PyStr(<<val.s[index + 1]>>) ELSE val.a[index + 1]

(***************************************************************************)
(* IdentitySwitcherApp (identity_switcher.py): the store driven by the     *)
(* application object.                                                     *)
(***************************************************************************)
\* IdentitySwitcherApp.__init__: self._identities = load_identities().
\* An exception leaves the process without an application object.
App_init ==
    /\ ~started
    /\ LET r == load_identities(file)
       IN  /\ file' = r.file
           /\ last' = Op("load", PyNone, r.outcome, ~file.exists, NoApply, "")
           /\ IF r.outcome.kind = "return"
              THEN started' = TRUE /\ identities' = r.outcome.val
              ELSE UNCHANGED <<started, identities>>
    /\ UNCHANGED <<platform, windows, selected, host, issued, applied, failed>>

\* IdentitySwitcherApp.set_identities(identities)
set_identities(P) ==
    /\ started
    /\ identities' = P
    /\ file' = save_identities(P)
    /\ last' = Op("save", P, Return(PyNone), FALSE, NoApply, "")
    /\ UNCHANGED <<platform, windows, started, selected, host, issued, applied, failed>>

\* root.quit / mainloop returns: the process ends, the file stays
AppQuit ==
    /\ started
    /\ started' = FALSE
    /\ identities' = PyArr(<<>>)
    /\ UNCHANGED <<platform, windows, file, selected, host, issued, last, applied, failed>>

NextApp ==
    \/ App_init
    \/ \E P \in ProfileSeqs(MaxProfiles) : set_identities(PyArr(P))
    \/ AppQuit

SpecApp == Init /\ [][NextApp]_vars

(***************************************************************************)
(* The store on a file system that can refuse access.  `fs` is what the    *)
(* file system answers when CONFIG_DIR / CONFIG_FILE is created or opened: *)
(* "ok", or "denied" (PermissionError, raised by mkdir or open before      *)
(* anything is read or written).                                           *)
(***************************************************************************)
FsCases == {"ok", "denied"}

\* the sequences handed to set_identities while the file system may refuse
IoSeqs == {<<>>, <<ProfileA>>, <<ProfileB, ProfileD>>, <<ProfileC, ProfileA>>}

\* (variant: a refused open is answered with the empty collection)
load_identities_fs_Forgiving(f, fs) ==
    IF fs = "denied"
    THEN [file |-> f, outcome |-> Return(PyArr(<<>>))]
    ELSE load_identities(f)

\* load_identities() under fs: no handler surrounds mkdir, open or json.load
load_identities_fs(f, fs) ==
    IF fs = "denied"
    THEN [file |-> f, outcome |-> Raise("PermissionError", <<>>)]
    ELSE load_identities(f)

\* save_identities(P) under fs: [file, outcome]
save_identities_fs(f, P, fs) ==
    IF fs = "denied"
    THEN [file |-> f, outcome |-> Raise("PermissionError", <<>>)]
    ELSE [file |-> save_identities(P), outcome |-> Return(PyNone)]

\* IdentitySwitcherApp.__init__ under fs
App_init_fs(fs) ==
    /\ ~started
    /\ LET r == load_identities_fs(file, fs)
       IN  /\ file' = r.file
           /\ last' = Op("load", PyNone, r.outcome, ~file.exists /\ fs = "ok",
                         NoApply, "")
           /\ IF r.outcome.kind = "return"
              THEN started' = TRUE /\ identities' = r.outcome.val
              ELSE UNCHANGED <<started, identities>>
    /\ UNCHANGED <<platform, windows, selected, host, issued, applied, failed>>

\* IdentitySwitcherApp.set_identities(identities) under fs: the in-memory
\* list is replaced before save_identities is called
set_identities_fs(P, fs) ==
    /\ started
    /\ identities' = P
    /\ LET r == save_identities_fs(file, P, fs)
       IN  /\ file' = r.file
           /\ last' = Op("save", P, r.outcome, FALSE, NoApply, "")
    /\ UNCHANGED <<platform, windows, started, selected, host, issued, applied, failed>>

NextIO ==
    \/ \E fs \in FsCases : App_init_fs(fs)
    \/ \E P \in IoSeqs, fs \in FsCases : set_identities_fs(PyArr(P), fs)
    \/ AppQuit

SpecIO == Init /\ [][NextIO]_vars

(***************************************************************************)
(* MainWindow (views.py)                                                   *)
(***************************************************************************)
\* MainWindow.__init__: load, then select the first profile if there is one
MainWindow_init ==
    /\ ~started
    /\ LET r == load_identities(file)
           ok == r.outcome.kind = "return" /\ r.outcome.val.t # "none"
       IN  /\ file' = r.file
           /\ last' = Op("load", PyNone,
                         IF r.outcome.kind = "return" /\ ~ok
                         THEN Raise("TypeError", <<>>) ELSE r.outcome,
                         ~file.exists, NoApply, "")
           /\ IF ok
              THEN /\ started' = TRUE
                   /\ identities' = r.outcome.val
                   /\ selected' = IF PyLen(r.outcome.val) > 0 THEN 0 ELSE -1
              ELSE UNCHANGED <<started, identities, selected>>
    /\ UNCHANGED <<platform, windows, host, issued, applied, failed>>

\* (variant: an index past the end of the list is left where it is)
SyncSelection_NoUpperClamp(sel, n) ==
    IF n = 0 THEN -1 ELSE IF sel < 0 THEN 0 ELSE sel

\* MainWindow._sync_selection_state: the index after clamping
SyncSelection(sel, n) ==
    IF n = 0 THEN -1
    ELSE LET s1 == IF sel < 0 THEN 0 ELSE sel
         IN  IF s1 >= n THEN n - 1 ELSE s1

\* MainWindow._on_card_clicked(index)
on_card_clicked(index) ==
    /\ started
    /\ index >= 0
    /\ index < PyLen(identities)
    /\ selected' = SyncSelection(index, PyLen(identities))
    /\ UNCHANGED <<platform, windows, file, started, identities, host, issued, last,
                   applied, failed>>

\* MainWindow._current_identity: is there one
HasCurrent == selected >= 0 /\ selected < PyLen(identities)

AgentProgs == {"ssh-add -D", "ssh-add"}
ProgsOf(cmds) == {cmds[i].prog : i \in 1..Len(cmds)}

\* apply_identity(identity) as _select_current calls it, and what the try /
\* except around it leaves in the status line
select_apply(identity, fails) ==
    LET r == apply_identity(identity, platform, fails, host)
        bad == (fails \cap ProgsOf(r.issued))
               \cup (IF "ssh-add" \in ProgsOf(r.issued) /\ ~is_key_file(r.key)
                     THEN {"ssh-add"} ELSE {})
    IN  /\ host' = r.host
        /\ issued' = r.issued
        /\ applied' = IF r.found
                      THEN [any |-> TRUE, identity |-> identity, key |-> r.key]
                      ELSE applied
        /\ failed' = [agent |-> failed.agent \/ bad \cap AgentProgs # {},
                      git |-> failed.git \/ bad \ AgentProgs # {}]
        /\ last' = Op("select", identity, r.outcome, FALSE,
                      [dialog |-> r.dialog, checked |-> r.checked,
                       found |-> r.found, key |-> r.key],
                      IF r.outcome.kind = "return" THEN "summary"
                      ELSE IF r.outcome.exc = "SSHKeyNotFoundError"
                           THEN "SSH key not found"
                           ELSE last.status)

\* (variant: the result of _current_identity is used without the None test)
select_current_NoNoneTest(fails) ==
    /\ started
    /\ select_apply(IF HasCurrent THEN PyIndex(identities, selected) ELSE PyNone, fails)
    /\ UNCHANGED <<platform, windows, file, started, identities, selected>>

\* MainWindow._select_current, with the programs that fail during this call
select_current(fails) ==
    /\ started
    /\ IF ~HasCurrent
       THEN /\ last' = Op("select", PyNone, Return(PyNone), FALSE, NoApply, last.status)
            /\ UNCHANGED <<host, issued, applied, failed>>
       ELSE select_apply(PyIndex(identities, selected), fails)
    /\ UNCHANGED <<platform, windows, file, started, identities, selected>>

Next ==
    \/ MainWindow_init
    \/ \E index \in 0..MaxProfiles : on_card_clicked(index)
    \/ \E fails \in FailureCases : select_current(fails)

Spec == Init /\ [][Next]_vars

(***************************************************************************)
(* The same window over a store whose profiles name, as their key path, a  *)
(* directory, a key file and a path that does not exist.                   *)
(***************************************************************************)
\* key path "~": the home directory itself
ProfileH == Profile(<<"H">>, <<"H">>, <<"h", "@", "x">>, <<"~">>)

KeyPathFiles ==
    { FileWith(JsonDump(StoreDocument(PyArr(<<ProfileH, ProfileA, ProfileC>>)))),
      FileWith(JsonDump(StoreDocument(PyArr(<<ProfileC, ProfileH>>)))) }

InitKey ==
    /\ platform \in Platforms
    /\ file \in KeyPathFiles
    /\ started = FALSE
    /\ identities = PyArr(<<>>)
    /\ selected = -1
    /\ host = InitialHost
    /\ issued = <<>>
    /\ last = Op("none", PyNone, Return(PyNone), FALSE, NoApply, "")
    /\ applied = [any |-> FALSE, identity |-> PyNone, key |-> <<>>]
    /\ failed = [agent |-> FALSE, git |-> FALSE]
    /\ windows = [i \in Instances |-> NoWindow]

SpecKey == InitKey /\ [][Next]_vars

(***************************************************************************)
(* MainWindow: creating, editing and deleting profiles (views.py).  The    *)
(* handlers are taken as callable in every state of the window; the guards *)
(* at their head decide what an index outside the list does.               *)
(***************************************************************************)
K_ssh_key_path == <<"s","s","h","_","k","e","y","_","p","a","t","h">>

\* str.strip()
RECURSIVE LStrip(_)
LStrip(c) == IF c # <<>> /\ IsWs(Head(c)) THEN LStrip(Tail(c)) ELSE c
RECURSIVE RStrip(_)
RStrip(c) ==
    IF c # <<>> /\ IsWs(c[Len(c)]) THEN RStrip(SubSeq(c, 1, Len(c) - 1)) ELSE c
Strip(c) == RStrip(LStrip(c))

\* the editor's four line edits read into a dict, each text stripped
collect_data(fields) ==
    PyObj(<<[k |-> K_name, v |-> PyStr(Strip(fields.name))],
            [k |-> K_git_name, v |-> PyStr(Strip(fields.git_name))],
            [k |-> K_git_email, v |-> PyStr(Strip(fields.git_email))],
            [k |-> K_ssh_key_path, v |-> PyStr(Strip(fields.ssh_key))]>>)

\* dict.update(data)
RECURSIVE DictUpdateFrom(_, _, _)
DictUpdateFrom(d, es, i) ==
    IF i > Len(es) THEN d
    ELSE DictUpdateFrom(SetItem(d, es[i].k, es[i].v), es, i + 1)
DictUpdate(d, data) == DictUpdateFrom(d, data.o, 1)

\* (variant: the record is inserted at the front)
ListAppend_Front(xs, x) == <<x>> \o xs

\* list.append(x)
ListAppend(xs, x) == Append(xs, x)

\* (variant: pop() without its index, which removes the last element)
ListPop_Last(xs, index) == SubSeq(xs, 1, Len(xs) - 1)

\* list.pop(index) on an index inside the list: the list that remains
ListPop(xs, index) == SubSeq(xs, 1, index) \o SubSeq(xs, index + 2, Len(xs))

\* (variant: only the upper end of the index is tested)
IndexInRange_UpperOnly(sel, n) == sel < n

\* the guards at the head of _save_edit and _delete_current, negated
IndexInRange(sel, n) == ~(sel < 0) /\ ~(sel >= n)

\* (variant: the index is read as the one after it, wrapping at the end)
PyPosition_Next(index, n) == (index + 1) % n

\* Python's reading of an index: a negative one counts from the end
PyPosition(index, n) == IF index < 0 THEN index + n ELSE index

\* (variant: the new record starts with every field empty)
NewProfile_AllEmpty == Profile(<<>>, <<>>, <<>>, <<>>)

\* the record _create_identity appends
NewProfile ==
    Profile(<<"N","e","w"," ","p","r","o","f","i","l","e">>, <<>>, <<>>, <<>>)

\* what the user can have typed into the editor
EditInputs ==
    { [name |-> <<" ", "E", " ">>, git_name |-> <<"E">>,
       git_email |-> <<"e", "@", "x">>, ssh_key |-> <<"~", "/", "a">>],
      [name |-> <<" ", " ">>, git_name |-> <<>>,
       git_email |-> <<>>, ssh_key |-> <<>>] }

\* a handler that returned at a guard or raised: nothing but `last` changes
HandlerStopped(op, outcome) ==
    /\ last' = Op(op, PyNone, outcome, FALSE, NoApply, last.status)
    /\ UNCHANGED <<file, identities, selected>>

\* MainWindow._create_identity
create_identity ==
    /\ started
    /\ PyLen(identities) <= MaxProfiles
    /\ IF identities.t # "arr"
       THEN HandlerStopped("create", Raise("AttributeError", <<>>))
       ELSE LET all == PyArr(ListAppend(identities.a, NewProfile))
            IN  /\ identities' = all
                /\ file' = save_identities(all)
                /\ selected' = SyncSelection(Len(all.a) - 1, Len(all.a))
                /\ last' = Op("create", NewProfile, Return(PyNone), FALSE, NoApply,
                              "created")
    /\ UNCHANGED <<platform, windows, started, host, issued, applied, failed>>

\* MainWindow._save_edit, with the texts in the editor
save_edit(fields) ==
    /\ started
    /\ IF ~IndexInRange(selected, PyLen(identities))
       THEN HandlerStopped("update", Return(PyNone))
       ELSE IF identities.t # "arr"
       THEN HandlerStopped("update", Raise("ValueError", <<>>))
       ELSE IF identities.a = <<>>
       THEN HandlerStopped("update", Raise("IndexError", <<>>))
       ELSE LET pos == PyPosition(selected, Len(identities.a)) + 1
                updated == DictUpdate(identities.a[pos], collect_data(fields))
                all == PyArr([identities.a EXCEPT ![pos] = updated])
            IN  /\ identities' = all
                /\ file' = save_identities(all)
                /\ selected' = SyncSelection(selected, Len(all.a))
                /\ last' = Op("update", updated, Return(PyNone), FALSE, NoApply,
                              "updated")
    /\ UNCHANGED <<platform, windows, started, host, issued, applied, failed>>

\* MainWindow._delete_current
delete_current ==
    /\ started
    /\ IF ~IndexInRange(selected, PyLen(identities))
       THEN HandlerStopped("delete", Return(PyNone))
       ELSE IF identities.t # "arr"
       THEN HandlerStopped("delete", Raise("AttributeError", <<>>))
       ELSE IF identities.a = <<>>
       THEN HandlerStopped("delete", Raise("IndexError", <<>>))
       ELSE LET pos == PyPosition(selected, Len(identities.a))
                ident == identities.a[pos + 1]
                all == PyArr(ListPop(identities.a, pos))
            IN  /\ identities' = all
                /\ file' = save_identities(all)
                /\ selected' = SyncSelection(selected, Len(all.a))
                /\ last' = Op("delete", ident, Return(PyNone), FALSE, NoApply,
                              "deleted")
    /\ UNCHANGED <<platform, windows, started, host, issued, applied, failed>>

NextEdit ==
    \/ MainWindow_init
    \/ \E index \in 0..MaxProfiles : on_card_clicked(index)
    \/ create_identity
    \/ \E fields \in EditInputs : save_edit(fields)
    \/ delete_current

SpecEdit == Init /\ [][NextEdit]_vars

\* the window with its editor and its Select button: a profile is edited,
\* saved, and applied (every command succeeding)
NextEditApply ==
    \/ MainWindow_init
    \/ \E index \in 0..MaxProfiles : on_card_clicked(index)
    \/ \E fields \in EditInputs : save_edit(fields)
    \/ select_current({})

SpecEditApply == Init /\ [][NextEditApply]_vars

(***************************************************************************)
(* Two processes of the tool on the same CONFIG_FILE.  Each runs its own   *)
(* handlers to completion, but nothing locks the file: between the open    *)
(* and the close of save_identities in one process the other process can   *)
(* run.  open("w") truncates the file at once; the document, far smaller   *)
(* than the file object's buffer, reaches the file in one write at offset  *)
(* 0 when the with block closes it.  Each process makes one mutation.      *)
(***************************************************************************)
\* the file after `text` was written at offset 0 over `old`
WriteAt0(old, text) == text \o SubSeq(old, Len(text) + 1, Len(old))

\* MainWindow.__init__ in process i
Win_init(i) ==
    /\ ~windows[i].started
    /\ LET r == load_identities(file)
       IN  /\ r.outcome.kind = "return"
           /\ r.outcome.val.t = "arr"
           /\ file' = r.file
           /\ windows' = [windows EXCEPT ![i] =
                 [NoWindow EXCEPT !.started = TRUE,
                                  !.identities = r.outcome.val,
                                  !.selected = IF PyLen(r.outcome.val) > 0
                                               THEN 0 ELSE -1]]
    /\ UNCHANGED <<platform, started, identities, selected, host, issued, last,
                   applied, failed>>

\* MainWindow._on_card_clicked(index) in process i
Win_card_clicked(i, index) ==
    /\ windows[i].started
    /\ windows[i].pc = "idle"
    /\ index >= 0
    /\ index < PyLen(windows[i].identities)
    /\ windows' = [windows EXCEPT ![i].selected =
                      SyncSelection(index, PyLen(windows[i].identities))]
    /\ UNCHANGED <<platform, file, started, identities, selected, host, issued,
                   last, applied, failed>>

\* process i has changed its list to `all` and is inside save_identities,
\* past the open
Win_opened(i, op, all) ==
    /\ windows' = [windows EXCEPT ![i].identities = all,
                                  ![i].pc = "writing",
                                  ![i].op = op,
                                  ![i].buf = JsonDump(StoreDocument(all))]
    /\ file' = FileWith(<<>>)
    /\ UNCHANGED <<platform, started, identities, selected, host, issued, last,
                   applied, failed>>

\* MainWindow._create_identity in process i, up to the open in save_identities
Win_create_open(i) ==
    /\ windows[i].started
    /\ windows[i].pc = "idle"
    /\ Win_opened(i, "create",
                  PyArr(ListAppend(windows[i].identities.a, NewProfile)))

\* MainWindow._delete_current in process i, up to the open in save_identities
Win_delete_open(i) ==
    /\ windows[i].started
    /\ windows[i].pc = "idle"
    /\ IndexInRange(windows[i].selected, PyLen(windows[i].identities))
    /\ Win_opened(i, "delete",
                  PyArr(ListPop(windows[i].identities.a, windows[i].selected)))

\* the rest of the handler in process i: the with block closes the file,
\* save_identities returns, the selection is brought up to date
Win_close(i) ==
    /\ windows[i].pc = "writing"
    /\ LET w == windows[i]
           n == PyLen(w.identities)
           done == Cardinality({j \in Instances : windows[j].pc = "done"})
       IN  /\ file' = FileWith(WriteAt0(file.text, w.buf))
           /\ windows' = [windows EXCEPT
                 ![i].pc = "done",
                 ![i].buf = <<>>,
                 ![i].rank = done + 1,
                 ![i].selected = SyncSelection(IF w.op = "create" THEN n - 1
                                               ELSE w.selected, n)]
           /\ last' = Op("save", w.identities, Return(PyNone), FALSE, NoApply, "")
    /\ UNCHANGED <<platform, started, identities, selected, host, issued,
                   applied, failed>>

NextRace ==
    \E i \in Instances :
        \/ Win_init(i)
        \/ \E index \in 0..MaxProfiles : Win_card_clicked(i, index)
        \/ Win_create_open(i)
        \/ Win_delete_open(i)
        \/ Win_close(i)

SpecRace == Init /\ [][NextRace]_vars

(***************************************************************************)
(* Properties of apply_identity, checked under Spec.                       *)
(***************************************************************************)
\* the selected record is a profile whose resolved key path does not exist
CurrentKeyMissing ==
    /\ started
    /\ HasCurrent
    /\ LET identity == PyIndex(identities, selected)
       IN  /\ identity.t = "obj"
           /\ HasKey(identity, K_ssh_key)
           /\ HasKey(identity, K_git_name)
           /\ HasKey(identity, K_git_email)
           /\ ~path_exists(expanduser(GetItem(identity, K_ssh_key).s))

\* the last operation was an apply that stopped at / passed the key check
LastApplyMissing == last.op = "select" /\ last.apply.checked /\ ~last.apply.found
LastApplyFound == last.op = "select" /\ last.apply.found

\* C1: an apply of a profile whose resolved key path does not exist issues no
\* command at all and leaves the SSH agent and the global Git configuration
\* exactly as they were before the call.
C1_MissingKeyIssuesNothing ==
    [][(CurrentKeyMissing /\ \E fails \in FailureCases : select_current(fails))
         => (issued' = <<>> /\ host' = host)]_vars

\* an apply stopped at the key check after an earlier apply had rewritten the host
C1_Witness ==
    /\ LastApplyMissing
    /\ applied.any
    /\ issued = <<>>
    /\ host.git.ssh.set
    /\ host # InitialHost

\* C2: an apply of a profile whose key file is missing ends in a raised
\* SSHKeyNotFound error that carries the resolved path and that the Select
\* action reports as an error, not in a normal return.
C2_MissingKeyRaises ==
    LastApplyMissing =>
        /\ last.outcome.kind = "raise"
        /\ last.outcome.exc = "SSHKeyNotFoundError"
        /\ last.outcome.arg = last.apply.key
        /\ last.status = "SSH key not found"

\* the commands issued between the agent commands and the last one
Middle(cmds) == SubSeq(cmds, 3, Len(cmds) - 1)

\* C3: off Windows, an apply that found the key file issued ssh-add -D, then
\* ssh-add <key>, then user.name and user.email (each at most once, in this
\* order), then core.sshCommand last, and nothing else; the key check came
\* first.
C3_CommandOrder ==
    (platform # "win32" /\ LastApplyFound) =>
        LET identity == last.arg
            nameCmd == CmdGitName(GetItem(identity, K_git_name).s)
            emailCmd == CmdGitEmail(GetItem(identity, K_git_email).s)
        IN  /\ last.apply.checked
            /\ Len(issued) >= 3
            /\ issued[1] = CmdAgentClear
            /\ issued[2] = CmdAgentAdd(last.apply.key)
            /\ issued[Len(issued)] = CmdGitSsh(last.apply.key)
            /\ Middle(issued) \in {<<>>, <<nameCmd>>, <<emailCmd>>, <<nameCmd, emailCmd>>}

\* an apply off Windows that issued all five commands
C3_Witness ==
    /\ platform = "linux"
    /\ LastApplyFound
    /\ Len(issued) = 5
    /\ issued[1].prog = "ssh-add -D"
    /\ issued[5].prog = "git config --global core.sshCommand"

\* C7: an apply issues the user.name command only when git_name is non-empty
\* and the user.email command only when git_email is non-empty.
C7_NameEmailOnlyWhenNonEmpty ==
    LastApplyFound =>
        /\ ("git config --global user.name" \in ProgsOf(issued))
              <=> (GetItem(last.arg, K_git_name).s # <<>>)
        /\ ("git config --global user.email" \in ProgsOf(issued))
              <=> (GetItem(last.arg, K_git_email).s # <<>>)

\* ssh -i "<key>"
SshCommandValue(key) ==
    <<"s", "s", "h", " ", "-", "i", " ", QUOTE>> \o key \o <<QUOTE>>

\* C8: every apply that found the key file issues the core.sshCommand
\* command, empty git_name / git_email or not; the value the shell hands to
\* git is  ssh -i "<resolved key path>",  which splits into ssh, -i and the
\* path as one word even when the path holds a blank; unless a git config
\* failed, it is the value of core.sshCommand afterwards.
C8_SshCommandQuoted ==
    LastApplyFound =>
        /\ issued # <<>>
        /\ LET c == issued[Len(issued)]
               w == ShellWords(c.rest)
           IN  /\ c.prog = "git config --global core.sshCommand"
               /\ w.ok
               /\ w.words = <<SshCommandValue(last.apply.key)>>
               /\ ShellWords(w.words[1]) =
                     [ok |-> TRUE,
                      words |-> <<<<"s", "s", "h">>, <<"-", "i">>, last.apply.key>>]
        /\ ~failed.git => host.git.ssh = SetTo(SshCommandValue(last.apply.key))

\* an apply of the profile with empty git_name and a key path holding a blank
C8_Witness ==
    /\ LastApplyFound
    /\ last.arg = ProfileB
    /\ last.apply.key = <<"/", "M", " ", "K">>
    /\ host.git.ssh = SetTo(SshCommandValue(<<"/", "M", " ", "K">>))

\* C9: as long as no command has failed, after an apply that passed the key
\* check the global user.name, user.email and core.sshCommand are the
\* git_name, git_email and resolved key path of the last such profile.
C9_GitConfigIsLastApplied ==
    (applied.any /\ ~failed.git /\ ~failed.agent) =>
        /\ host.git.name = SetTo(GetItem(applied.identity, K_git_name).s)
        /\ host.git.email = SetTo(GetItem(applied.identity, K_git_email).s)
        /\ host.git.ssh = SetTo(SshCommandValue(applied.key))

\* the profile with the empty git_name is the one applied, without a failure
C9_Witness ==
    /\ applied.any
    /\ applied.identity = ProfileB
    /\ ~failed.git
    /\ ~failed.agent
    /\ host.git.name = SetTo(<<>>)
    /\ host.git.email = SetTo(<<"b", "@", "x">>)

\* the keys in the agent that the tool loaded
ToolKeys == {e \in host.agent : e.by = "tool"}

\* C10: off Windows, as long as no ssh-add has failed, the agent holds at
\* most one key loaded by the tool, and after an apply that passed the key
\* check it holds exactly the resolved key of that profile.
C10_AgentHoldsOneKey ==
    (platform # "win32" /\ ~failed.agent) =>
        /\ Cardinality(ToolKeys) <= 1
        /\ applied.any => host.agent = {[key |-> applied.key, by |-> "tool"]}

\* the agent holds the second profile's key and nothing else
C10_Witness ==
    /\ platform = "linux"
    /\ ~failed.agent
    /\ applied.any
    /\ host.agent = {[key |-> <<"/", "M", " ", "K">>, by |-> "tool"]}

(***************************************************************************)
(* Properties of the store, checked under SpecApp.                         *)
(***************************************************************************)
\* C4: after save(P), load() returns P: same length, same order, every field
\* of every profile equal.
C4_SaveLoadRoundTrip ==
    last.op = "save" =>
        /\ load_identities(file).outcome = Return(last.arg)
        /\ load_identities(file).file = file

\* a saved sequence of two profiles, one with a quote and a backslash in a field
C4_Witness ==
    /\ last.op = "save"
    /\ last.arg = PyArr(<<ProfileB, ProfileD>>)
    /\ file.exists

\* {"identities": []}, as json.dump writes it
EmptyStoreFile == FileWith(JsonDump(StoreDocument(PyArr(<<>>))))

\* C5: load() without a backing file creates the file holding an empty
\* collection and returns the empty sequence; a second load() right after
\* returns the empty sequence again and leaves the file as it is.
C5_BootstrapIdempotent ==
    [][(App_init /\ ~file.exists) =>
          /\ file'.exists
          /\ JsonLoad(file'.text) = [ok |-> TRUE, val |-> StoreDocument(PyArr(<<>>))]
          /\ last'.outcome = Return(PyArr(<<>>))
          /\ load_identities(file') = [file |-> file', outcome |-> Return(PyArr(<<>>))]]_vars

\* the application started without a file and now holds the empty sequence
C5_Witness ==
    /\ last.op = "load"
    /\ last.created
    /\ started
    /\ file = EmptyStoreFile
    /\ identities = PyArr(<<>>)

\* the file exists and is invalid JSON, or its identities value is not an array
BadStoreFile(f) ==
    /\ f.exists
    /\ LET r == JsonLoad(f.text)
       IN  \/ ~r.ok
           \/ /\ r.val.t = "obj"
              /\ HasKey(r.val, K_identities)
              /\ GetItem(r.val, K_identities).t # "arr"

\* C6: load() on an existing file that is invalid JSON, or whose identities
\* value is not an array, returns the empty sequence and does not raise.
C6_BadFileLoadsEmpty ==
    (last.op = "load" /\ BadStoreFile(file)) => last.outcome = Return(PyArr(<<>>))

(***************************************************************************)
(* Properties of MainWindow's create / edit / delete, checked under        *)
(* SpecEdit, and of _select_current on an empty selection, under Spec.     *)
(***************************************************************************)
\* the selected index is outside 0..len-1
OutOfRange == selected < 0 \/ selected >= PyLen(identities)

\* the selected index names an element of the list
SelectionValid ==
    started /\ identities.t = "arr" /\ selected >= 0 /\ selected < Len(identities.a)

\* C11: deleting at a valid index i of n profiles leaves n-1 profiles, the
\* original without element i and the others in their order, and loading
\* the file afterwards returns that sequence.
C11_DeleteRemovesOne ==
    [][(SelectionValid /\ delete_current) =>
          /\ identities'.t = "arr"
          /\ Len(identities'.a) = Len(identities.a) - 1
          /\ \A j \in 1..Len(identities'.a) :
                identities'.a[j] = IF j < selected + 1
                                   THEN identities.a[j] ELSE identities.a[j + 1]
          /\ load_identities(file') = [file |-> file', outcome |-> Return(identities')]]_vars

\* the middle one of three profiles was deleted
C11_Witness ==
    /\ last.op = "delete"
    /\ last.arg = ProfileB
    /\ identities = PyArr(<<ProfileA, ProfileC>>)
    /\ file = save_identities(identities)

\* C12 as claimed: _save_edit and _delete_current on an index outside
\* 0..len-1 fail with an index error and leave the list and the file as
\* they are.
C12_InvalidIndexRaises ==
    [][(started /\ OutOfRange
        /\ (delete_current \/ \E fields \in EditInputs : save_edit(fields))) =>
          /\ last'.outcome.kind = "raise"
          /\ last'.outcome.exc \in {"IndexError", "IndexOutOfRange"}
          /\ identities' = identities
          /\ file' = file]_vars

\* C12 as amended: _save_edit and _delete_current on an index outside
\* 0..len-1 return normally, without raising, and leave the list, the
\* selected index and the file as they are.
C12_InvalidIndexIgnored ==
    [][(started /\ OutOfRange
        /\ (delete_current \/ \E fields \in EditInputs : save_edit(fields))) =>
          /\ last'.outcome = Return(PyNone)
          /\ identities' = identities
          /\ selected' = selected
          /\ file' = file]_vars

\* a delete on the empty list returned at its guard
C12_Witness ==
    /\ started
    /\ last.op = "delete"
    /\ last.arg = PyNone
    /\ last.outcome = Return(PyNone)
    /\ identities = PyArr(<<>>)
    /\ selected = -1
    /\ file.exists

\* C13 as claimed: _select_current on an index outside 0..len-1 fails with
\* an index error and issues no command.
C13_NoSelectionRaises ==
    [][(started /\ OutOfRange /\ \E fails \in FailureCases : select_current(fails)) =>
          /\ last'.outcome.kind = "raise"
          /\ last'.outcome.exc \in {"IndexError", "IndexOutOfRange"}
          /\ issued' = issued
          /\ host' = host]_vars

\* C13 as amended: _select_current on an index outside 0..len-1 returns
\* normally without calling apply_identity; no command is issued and the
\* host is unchanged.
C13_NoSelectionIgnored ==
    [][(started /\ OutOfRange /\ \E fails \in FailureCases : select_current(fails)) =>
          /\ last'.outcome = Return(PyNone)
          /\ ~last'.apply.checked
          /\ issued' = issued
          /\ host' = host]_vars

\* Select on the empty list returned without an identity
C13_Witness ==
    /\ started
    /\ last.op = "select"
    /\ last.arg = PyNone
    /\ last.outcome = Return(PyNone)
    /\ identities = PyArr(<<>>)
    /\ selected = -1
    /\ issued = <<>>
    /\ host = InitialHost

\* a Python int below ten; s holds its decimal digit
PyInt(n) ==
    [t |-> "int", s |-> <<<<"0","1","2","3","4","5","6","7","8","9">>[n + 1]>>,
     a |-> <<>>, o |-> <<>>]

\* what both readings of C14 share: one record more, at the end, the others
\* in place, and the file holding the new list
CreateAppends ==
    /\ identities'.t = "arr"
    /\ Len(identities'.a) = Len(identities.a) + 1
    /\ \A j \in 1..Len(identities.a) : identities'.a[j] = identities.a[j]
    /\ identities'.a[Len(identities'.a)] = last'.arg
    /\ load_identities(file') = [file |-> file', outcome |-> Return(identities')]

\* C14 as claimed: create appends one profile at the end, keeps the others,
\* persists the list and returns the new profile's index, the old length.
C14_CreateReturnsIndex ==
    [][(started /\ identities.t = "arr" /\ create_identity) =>
          /\ CreateAppends
          /\ last'.outcome = Return(PyInt(Len(identities.a)))]_vars

\* C14 as amended: create appends one profile at the end, keeps the others,
\* persists the list, returns nothing and makes the new profile, whose index
\* is the old length, the selected one.
C14_CreateSelectsNew ==
    [][(started /\ identities.t = "arr" /\ create_identity) =>
          /\ CreateAppends
          /\ last'.outcome = Return(PyNone)
          /\ selected' = Len(identities.a)]_vars

\* a profile was created behind two existing ones
C14_Witness ==
    /\ last.op = "create"
    /\ identities.t = "arr"
    /\ Len(identities.a) = 3
    /\ identities.a[1] = ProfileA
    /\ identities.a[2] = ProfileB
    /\ identities.a[3] = last.arg
    /\ selected = 2

(***************************************************************************)
(* Properties of loaded records (SpecApp), of what apply_identity returns  *)
(* and of its platform branch (Spec), of stored names and new records      *)
(* (SpecEdit), and of a refusing file system (SpecIO).                     *)
(***************************************************************************)
\* the record holds the four profile fields (the key path under either name)
HasAllFields(p) ==
    /\ p.t = "obj"
    /\ HasKey(p, K_name)
    /\ HasKey(p, K_git_name)
    /\ HasKey(p, K_git_email)
    /\ HasKey(p, K_ssh_key) \/ HasKey(p, K_ssh_key_path)

\* C15: every profile load() returns has all four fields; a field absent
\* from the file's record comes back as the empty string.
C15_LoadedProfilesComplete ==
    (last.op = "load" /\ last.outcome.kind = "return" /\ last.outcome.val.t = "arr") =>
        \A i \in 1..Len(last.outcome.val.a) : HasAllFields(last.outcome.val.a[i])

\* a Summary: profile name, Git name, Git email
Summary(name, git_name, git_email) ==
    PyObj(<<[k |-> K_name, v |-> PyStr(name)],
            [k |-> K_git_name, v |-> PyStr(git_name)],
            [k |-> K_git_email, v |-> PyStr(git_email)]>>)

\* C16: an apply that passes the key check returns a Summary whose profile
\* name, Git name and Git email are those of the applied profile.
C16_ApplyReturnsSummary ==
    (LastApplyFound /\ HasKey(last.arg, K_name)) =>
        last.outcome = Return(Summary(GetItem(last.arg, K_name).s,
                                      GetItem(last.arg, K_git_name).s,
                                      GetItem(last.arg, K_git_email).s))

GitProgs == Progs \ AgentProgs

\* C17: on Windows an apply that found the key issues no ssh-add at all and
\* still the git config commands, core.sshCommand last; on any other
\* platform ssh-add -D and ssh-add come first, before every git config.
C17_AgentOnlyOffWindows ==
    LastApplyFound =>
        /\ issued # <<>>
        /\ issued[Len(issued)].prog = "git config --global core.sshCommand"
        /\ IF platform = "win32"
           THEN \A i \in 1..Len(issued) : issued[i].prog \in GitProgs
           ELSE /\ Len(issued) >= 3
                /\ issued[1].prog = "ssh-add -D"
                /\ issued[2].prog = "ssh-add"
                /\ \A i \in 3..Len(issued) : issued[i].prog \in GitProgs

\* an apply on Windows that issued the three git config commands only
C17_Witness ==
    /\ platform = "win32"
    /\ LastApplyFound
    /\ Len(issued) = 3
    /\ host.git.ssh.set
    /\ host.agent = InitialHost.agent

\* C18: every stored profile has a non-empty name, whatever was created,
\* edited or deleted.
C18_NamesNonEmpty ==
    (started /\ identities.t = "arr") =>
        \A i \in 1..Len(identities.a) :
            (identities.a[i].t = "obj" /\ HasKey(identities.a[i], K_name))
                => GetItem(identities.a[i], K_name).s # <<>>

\* C19: when the file system refuses access during load or save, the call
\* ends in the raised error: the file is untouched and a refused load does
\* not start the application on an empty collection.
C19_IoErrorPropagates ==
    [][(App_init_fs("denied") \/ \E P \in IoSeqs : set_identities_fs(PyArr(P), "denied")) =>
          /\ last'.outcome = Raise("PermissionError", <<>>)
          /\ file' = file
          /\ started' = started]_vars

\* a load that was refused on an existing, well-formed file
C19_Witness ==
    /\ last.op = "load"
    /\ last.outcome = Raise("PermissionError", <<>>)
    /\ ~started
    /\ file = FileWith(ValidText)

\* the record the last create appended
Created == identities.a[Len(identities.a)]

\* C20 as claimed: a profile made by the "new" action has four fields, all
\* of them the empty string, when it is created.
C20_NewProfileAllEmpty ==
    (last.op = "create" /\ last.outcome.kind = "return") =>
        /\ Len(Created.o) = 4
        /\ \A i \in 1..4 : Created.o[i].v = PyStr(<<>>)

\* C20 as amended: a profile made by the "new" action has git_name,
\* git_email and ssh_key equal to the empty string and the name
\* "New profile" when it is created.
C20_NewProfileDefaults ==
    (last.op = "create" /\ last.outcome.kind = "return") =>
        /\ Len(Created.o) = 4
        /\ GetItem(Created, K_name) = PyStr(<<"N","e","w"," ","p","r","o","f","i","l","e">>)
        /\ GetItem(Created, K_git_name) = PyStr(<<>>)
        /\ GetItem(Created, K_git_email) = PyStr(<<>>)
        /\ GetItem(Created, K_ssh_key) = PyStr(<<>>)
        /\ file = save_identities(identities)

\* the first profile of an empty store was just created
C20_Witness ==
    /\ last.op = "create"
    /\ last.outcome.kind = "return"
    /\ Len(identities.a) = 1
    /\ selected = 0
    /\ file.exists

(***************************************************************************)
(* Properties of _save_edit's effect on the list (SpecEditApply).          *)
(***************************************************************************)
\* C21: an edit saved at a valid index i overwrites only the record at
\* position i, with that record updated by the editor's data: the list keeps
\* its length, every record at another index is unchanged, and the file
\* holds the full updated list afterwards.
C21_UpdateOverwritesOne ==
    [][\A fields \in EditInputs :
          (SelectionValid /\ save_edit(fields)) =>
              /\ identities'.t = "arr"
              /\ Len(identities'.a) = Len(identities.a)
              /\ \A j \in 1..Len(identities.a) :
                    j # selected + 1 => identities'.a[j] = identities.a[j]
              /\ identities'.a[selected + 1] =
                    DictUpdate(identities.a[selected + 1], collect_data(fields))
              /\ file' = save_identities(identities')
              /\ load_identities(file') =
                    [file |-> file', outcome |-> Return(identities')]]_vars

\* the middle one of three profiles was edited, its neighbours are as loaded
C21_Witness ==
    /\ last.op = "update"
    /\ last.outcome = Return(PyNone)
    /\ identities.t = "arr"
    /\ Len(identities.a) = 3
    /\ identities.a[1] = ProfileA
    /\ identities.a[2] = last.arg
    /\ identities.a[2] # ProfileB
    /\ identities.a[3] = ProfileC
    /\ selected = 1

(***************************************************************************)
(* Properties of apply_identity when an ssh-add fails (Spec).              *)
(***************************************************************************)
\* the selected record is a complete profile whose resolved key path exists
CurrentKeyFound ==
    /\ started
    /\ HasCurrent
    /\ LET identity == PyIndex(identities, selected)
       IN  /\ identity.t = "obj"
           /\ HasKey(identity, K_name)
           /\ HasKey(identity, K_ssh_key)
           /\ HasKey(identity, K_git_name)
           /\ HasKey(identity, K_git_email)
           /\ path_exists(expanduser(GetItem(identity, K_ssh_key).s))

\* an apply during which ssh-add -D, or ssh-add <key>, exits non-zero
AgentFailures == {{"ssh-add -D"}, {"ssh-add"}}

\* C22: off Windows, an apply during which ssh-add -D or ssh-add <key> exits
\* non-zero still issues user.name, user.email and core.sshCommand after the
\* two agent commands, raises nothing and ends in the "Identity switched"
\* message; the Git configuration is that of the profile, and when it was
\* the add that failed the agent does not hold the key Git is bound to.
C22_AgentFailureIgnored ==
    [][\A fails \in AgentFailures :
          (platform # "win32" /\ CurrentKeyFound /\ select_current(fails)) =>
              LET identity == PyIndex(identities, selected)
                  key == expanduser(GetItem(identity, K_ssh_key).s)
                  git_name == GetItem(identity, K_git_name).s
                  git_email == GetItem(identity, K_git_email).s
              IN  /\ Len(issued') = 5
                  /\ issued'[1] = CmdAgentClear
                  /\ issued'[2] = CmdAgentAdd(key)
                  /\ SubSeq(issued', 3, 5) =
                        <<CmdGitName(git_name), CmdGitEmail(git_email), CmdGitSsh(key)>>
                  /\ last'.outcome = Return(PyNone)
                  /\ last'.apply.dialog =
                        InfoDialog(GetItem(identity, K_name).s, git_name, git_email)
                  /\ host'.git = [name |-> SetTo(git_name), email |-> SetTo(git_email),
                                  ssh |-> SetTo(SshCommandValue(key))]
                  /\ fails = {"ssh-add"} => \A e \in host'.agent : e.key # key]_vars

\* Git is bound to the key of the applied profile while the agent, cleared
\* but not reloaded, holds no key at all
C22_Witness ==
    /\ platform = "linux"
    /\ LastApplyFound
    /\ failed.agent
    /\ ~failed.git
    /\ last.outcome = Return(PyNone)
    /\ last.apply.dialog.kind = "info"
    /\ host.git.ssh = SetTo(SshCommandValue(last.apply.key))
    /\ host.agent = {}

(***************************************************************************)
(* The key check on a path that exists but is no file (SpecKey).           *)
(***************************************************************************)
\* the last apply checked a key path that exists and is not a regular file
LastApplyNonFile ==
    /\ last.op = "select"
    /\ last.apply.checked
    /\ path_exists(last.apply.key)
    /\ ~is_key_file(last.apply.key)

\* C23: an apply whose resolved key path exists but is not a readable file
\* (a directory) fails with SSHKeyNotFound and issues no command.
C23_NonFileKeyRejected ==
    LastApplyNonFile =>
        /\ ~last.apply.found
        /\ issued = <<>>
        /\ last.outcome = Raise("SSHKeyNotFoundError", last.apply.key)

(***************************************************************************)
(* Two processes saving to one file (SpecRace).                            *)
(***************************************************************************)
\* both processes have made their mutation and are back from save_identities
BothSaved == \A i \in Instances : windows[i].pc = "done"

\* the process whose save completed last
LastSaver == CHOOSE i \in Instances : windows[i].rank = Cardinality(Instances)

\* C24: once two processes have each made one mutation and saved, the file
\* holds exactly the list of the process that saved last, as save_identities
\* writes it, and loading it returns that list.
C24_LastWriteWins ==
    BothSaved =>
        /\ file = save_identities(windows[LastSaver].identities)
        /\ load_identities(file).outcome = Return(windows[LastSaver].identities)

(***************************************************************************)
(* The key path an edit stores and the key path an apply uses              *)
(* (SpecEditApply).                                                        *)
(***************************************************************************)
\* the last operation was Select on a record the editor has written to
LastApplyEdited ==
    /\ last.op = "select"
    /\ last.arg.t = "obj"
    /\ HasKey(last.arg, K_ssh_key_path)

\* C25: when a profile whose key path was edited to p and saved is applied,
\* the existence check, and with it ssh-add and core.sshCommand, use the
\* home-expanded form of p.
C25_EditedKeyIsApplied ==
    LastApplyEdited =>
        LET p == expanduser(GetItem(last.arg, K_ssh_key_path).s)
        IN  /\ last.apply.checked
            /\ last.apply.key = p
            /\ last.apply.found =>
                  /\ issued[Len(issued)] = CmdGitSsh(p)
                  /\ platform # "win32" => issued[2] = CmdAgentAdd(p)

(***************************************************************************)
(* The selected index of MainWindow (SpecEdit).                            *)
(***************************************************************************)
\* the index is -1 on an empty list and names an element of any other
SelectionInRange(sel, n) ==
    /\ (sel = -1) <=> (n = 0)
    /\ n > 0 => (0 <= sel /\ sel < n)

\* C26: after construction and after every card click, create, edit-save
\* and delete, the selected index is -1 exactly when the list is empty and
\* otherwise lies in 0..len-1; a delete at the last index leaves the new
\* last element selected and a create leaves the new profile selected.
C26_SelectionStaysInRange ==
    [][/\ started' => SelectionInRange(selected', PyLen(identities'))
       /\ (SelectionValid /\ selected = Len(identities.a) - 1 /\ delete_current)
             => selected' = Len(identities'.a) - 1
       /\ (started /\ identities.t = "arr" /\ create_identity)
             => selected' = Len(identities.a)]_vars

\* the last of three profiles was deleted and the second is now selected
C26_Witness ==
    /\ last.op = "delete"
    /\ last.arg = ProfileC
    /\ identities = PyArr(<<ProfileA, ProfileB>>)
    /\ selected = 1

(***************************************************************************)
(* The list in memory and the list in the file (SpecEdit).                 *)
(***************************************************************************)
\* C27: once MainWindow is constructed, and after every create, edit-save
\* and delete, load_identities on the backing file returns exactly the list
\* the window holds in memory, and loading changes nothing in the file.
C27_MemoryMatchesFile ==
    started => load_identities(file) = [file |-> file, outcome |-> Return(identities)]

\* a hand-written record with one field was edited and saved: the list in
\* memory holds the record with the editor's fields added, and so does the file
C27_Witness ==
    /\ started
    /\ last.op = "update"
    /\ identities.t = "arr"
    /\ Len(identities.a) = 1
    /\ identities.a[1] = last.arg
    /\ GetItem(last.arg, K_name) = PyStr(<<"E">>)
    /\ HasKey(last.arg, K_ssh_key_path)
    /\ ~HasKey(last.arg, K_ssh_key)
    /\ JsonLoad(file.text) = [ok |-> TRUE, val |-> StoreDocument(identities)]

====
